---- MODULE Spec2Model ----
(***************************************************************************)
(* Small UID: 64-bit identifiers (44-bit millisecond timestamp, 20 random  *)
(* bits) and their base64url text form.                                    *)
(*                                                                         *)
(* A JavaScript bigint is modelled as a record [neg, mag]: its sign and    *)
(* its magnitude as a sequence of bits, most significant first, without    *)
(* leading zeros (zero is the empty sequence).  A string is a sequence of  *)
(* character codes.  Bytes, hex digits and character codes are integers.   *)
(***************************************************************************)
EXTENDS Integers, Sequences, FiniteSets, TLC

\* ------------------------------------------------------------ bit sequences

Zeros(n) == [i \in 1..n |-> 0]

Ones(n) == [i \in 1..n |-> 1]

MinOf(S) == CHOOSE x \in S : \A y \in S : x <= y

MaxOf(S) == CHOOSE x \in S : \A y \in S : x >= y

\* b without its leading zero bits
Strip(b) ==
  LET idx == {i \in 1..Len(b) : b[i] = 1}
  IN  IF idx = {} THEN <<>> ELSE SubSeq(b, MinOf(idx), Len(b))

\* the n low bits of b, zero-extended on the left to exactly n bits
Low(b, n) ==
  [i \in 1..n |-> IF i + Len(b) - n >= 1 THEN b[i + Len(b) - n] ELSE 0]

\* the n low bits of the two's complement of -b (b a non-zero magnitude):
\* every bit above the lowest set bit is inverted
NegLow(b, n) ==
  LET w    == Low(b, n)
      ones == {i \in 1..n : w[i] = 1}
  IN  IF ones = {} THEN w
      ELSE [i \in 1..n |-> IF i < MaxOf(ones) THEN 1 - w[i] ELSE w[i]]

\* magnitude + 1
Inc(b) ==
  LET zs == {i \in 1..Len(b) : b[i] = 0}
  IN  IF zs = {} THEN <<1>> \o Zeros(Len(b))
      ELSE [i \in 1..Len(b) |->
              IF i < MaxOf(zs) THEN b[i] ELSE IF i = MaxOf(zs) THEN 1 ELSE 0]

\* the integer a short bit sequence denotes
RECURSIVE BitsToInt(_)
BitsToInt(b) ==
  IF b = <<>> THEN 0 ELSE 2 * BitsToInt(SubSeq(b, 1, Len(b) - 1)) + b[Len(b)]

\* the n-bit form of a small integer
IntToBits(k, n) == [i \in 1..n |-> (k \div (2 ^ (n - i))) % 2]

\* ------------------------------------------------------------------ bigint

Big(bits) == [neg |-> FALSE, mag |-> Strip(bits)]

BigNeg(bits) == [neg |-> Strip(bits) # <<>>, mag |-> Strip(bits)]

ZERO == Big(<<>>)

\* x < 0n
IsNegative(x) == x.neg

\* a < b for non-negative bigints
BigLess(a, b) ==
  \/ Len(a.mag) < Len(b.mag)
  \/ /\ Len(a.mag) = Len(b.mag)
     /\ \E i \in 1..Len(a.mag) :
          /\ a.mag[i] < b.mag[i]
          /\ \A j \in 1..(i - 1) : a.mag[j] = b.mag[j]

\* x << n
ShiftLeft(x, n) ==
  [neg |-> x.neg, mag |-> IF x.mag = <<>> THEN <<>> ELSE x.mag \o Zeros(n)]

\* x >> n (an arithmetic shift: it rounds towards minus infinity)
ShiftRight(x, n) ==
  LET keep == IF Len(x.mag) > n THEN SubSeq(x.mag, 1, Len(x.mag) - n) ELSE <<>>
      lost == Low(x.mag, n)
  IN  IF x.neg
        THEN [neg |-> TRUE,
              mag |-> IF \E i \in 1..n : lost[i] = 1 THEN Inc(keep) ELSE keep]
        ELSE [neg |-> FALSE, mag |-> keep]

\* x & m for a non-negative mask m (x of either sign, in two's complement)
BitAnd(x, m) ==
  LET n == Len(m.mag)
      w == IF x.neg THEN NegLow(x.mag, n) ELSE Low(x.mag, n)
  IN  Big([i \in 1..n |-> w[i] * m.mag[i]])

\* a | b for non-negative a and b (the only use follows the sign check)
BitOr(a, b) ==
  LET n == IF Len(a.mag) > Len(b.mag) THEN Len(a.mag) ELSE Len(b.mag)
      u == Low(a.mag, n)
      v == Low(b.mag, n)
  IN  Big([i \in 1..n |-> IF u[i] = 1 \/ v[i] = 1 THEN 1 ELSE 0])

\* x.toString(2) of a non-negative x, as its digits
ToString2(x) == IF x.mag = <<>> THEN <<0>> ELSE x.mag

\* x.toString(16) of a non-negative x, as its hex digits
ToString16(x) ==
  IF x.mag = <<>> THEN <<0>>
  ELSE LET n == (Len(x.mag) + 3) \div 4
           w == Low(x.mag, 4 * n)
       IN  [i \in 1..n |-> BitsToInt(SubSeq(w, 4 * i - 3, 4 * i))]

\* ------------------------------------------------------------------ base64

PAD == 61

PLUS == 43

SLASH == 47

MINUS == 45

UNDERSCORE == 95

\* the character of a 6-bit group in the standard base64 alphabet
B64Char(k) ==
  IF k < 26 THEN 65 + k
  ELSE IF k < 52 THEN 97 + (k - 26)
  ELSE IF k < 62 THEN 48 + (k - 52)
  ELSE IF k = 62 THEN PLUS ELSE SLASH

B64Codes == {B64Char(k) : k \in 0..63}

B64Index(c) == CHOOSE k \in 0..63 : B64Char(k) = c

\* the bits of a sequence of bytes
RECURSIVE BytesToBits(_)
BytesToBits(bytes) ==
  IF bytes = <<>> THEN <<>>
  ELSE IntToBits(Head(bytes), 8) \o BytesToBits(Tail(bytes))

\* btoa(u): standard base64 of a binary string, padded with '='
Btoa(bytes) ==
  LET bits == BytesToBits(bytes)
      n    == (Len(bits) + 5) \div 6
      w    == bits \o Zeros(6 * n - Len(bits))
      body == [i \in 1..n |-> B64Char(BitsToInt(SubSeq(w, 6 * i - 5, 6 * i)))]
  IN  body \o [i \in 1..((4 - (n % 4)) % 4) |-> PAD]

WHITESPACE == {9, 10, 12, 13, 32}

\* atob(s): the forgiving base64 decode; [ok, bytes]
Atob(s) ==
  LET t  == SelectSeq(s, LAMBDA c : c \notin WHITESPACE)
      np == IF Len(t) % 4 = 0 /\ Len(t) >= 1 /\ t[Len(t)] = PAD
              THEN IF Len(t) >= 2 /\ t[Len(t) - 1] = PAD THEN 2 ELSE 1
              ELSE 0
      d  == SubSeq(t, 1, Len(t) - np)
  IN  IF Len(d) % 4 = 1 \/ \E i \in 1..Len(d) : d[i] \notin B64Codes
        THEN [ok |-> FALSE, bytes |-> <<>>]
        ELSE LET bits == [i \in 1..(6 * Len(d)) |->
                            IntToBits(B64Index(d[((i - 1) \div 6) + 1]), 6)[((i - 1) % 6) + 1]]
                 nb   == Len(bits) \div 8
             IN  [ok |-> TRUE,
                  bytes |-> [j \in 1..nb |-> BitsToInt(SubSeq(bits, 8 * j - 7, 8 * j))]]

\* ------------------------------------------------------------ src/utils.ts

\* toByteString(v): one character per two hex digits, taken from the left
toByteString(v) ==
  LET hex == ToString16(v)
      len == Len(hex)
      n   == (len + 1) \div 2
  IN  [k \in 1..n |->
         IF 2 * k <= len THEN 16 * hex[2 * k - 1] + hex[2 * k] ELSE hex[2 * k - 1]]

\* s without its trailing '=' characters
StripPad(s) ==
  LET keep == {i \in 1..Len(s) : s[i] # PAD}
  IN  IF keep = {} THEN <<>> ELSE SubSeq(s, 1, MaxOf(keep))

\* .replace(/\+/g, "-").replace(/\//g, "_").replace(/=+$/, "")
escapeUrl(s) ==
  StripPad([i \in 1..Len(s) |->
              IF s[i] = PLUS THEN MINUS ELSE IF s[i] = SLASH THEN UNDERSCORE ELSE s[i]])

encode(v) == escapeUrl(Btoa(toByteString(v)))

\* decode(s): [thrown, value]
decode(s) ==
  LET normalized == [i \in 1..Len(s) |->
                       IF s[i] = MINUS THEN PLUS
                       ELSE IF s[i] = UNDERSCORE THEN SLASH ELSE s[i]]
      bin == Atob(normalized)
  IN  IF ~bin.ok THEN [thrown |-> TRUE, value |-> ZERO]
      ELSE [thrown |-> FALSE, value |-> Big(BytesToBits(bin.bytes))]

\* ------------------------------------------------- class SmallUid (static)

\* SmallUid.#MAX: 64 one bits
MAX == Big(Ones(64))

\* SmallUid.#RIGHT20: 20 one bits
RIGHT20 == Big(Ones(20))

\* the outcome of a call that throws
Thrown == [thrown |-> TRUE, value |-> ZERO]

Returned(v) == [thrown |-> FALSE, value |-> v]

\* a #filterValue that forgets the mask
filterValueNoMask(value) == value

\* #filterValue(value)
filterValue(value) == BitAnd(value, MAX)

\* /^[A-Za-z0-9\-_]+$/.test(s)
base64urlRegex(s) ==
  /\ Len(s) >= 1
  /\ \A i \in 1..Len(s) :
       \/ s[i] \in {MINUS, UNDERSCORE}
       \/ s[i] \in B64Codes \ {PLUS, SLASH}

\* #genString(value)
genString(value) == encode(value)

\* #stringToValue(string): [thrown, value]
stringToValue(string) ==
  LET encoded == SubSeq(string, 1, IF Len(string) < 10 THEN Len(string) ELSE 10)
  IN  IF ~base64urlRegex(encoded) THEN Thrown ELSE decode(encoded)

\* an #assemble that ors the random value in as it comes
assembleWideRandom(timestamp, random) ==
  IF IsNegative(timestamp) \/ IsNegative(random) THEN Thrown
  ELSE Returned(BitOr(ShiftLeft(timestamp, 20), random))

\* an #assemble that shifts a random value of 20 bits too
assembleShiftsTwenty(timestamp, random) ==
  IF IsNegative(timestamp) \/ IsNegative(random) THEN Thrown
  ELSE Returned(BitOr(ShiftLeft(timestamp, 20),
                      IF Len(ToString2(random)) >= 20
                        THEN ShiftRight(BitAnd(random, MAX), 44)
                        ELSE random))

\* an #assemble that checks the sign of the timestamp alone
assembleChecksTimestamp(timestamp, random) ==
  IF IsNegative(timestamp) THEN Thrown
  ELSE Returned(BitOr(ShiftLeft(timestamp, 20),
                      IF Len(ToString2(random)) > 20
                        THEN ShiftRight(BitAnd(random, MAX), 44)
                        ELSE random))

\* an #assemble that keeps the low 20 bits of a wide random value
assembleKeepsLow(timestamp, random) ==
  IF IsNegative(timestamp) \/ IsNegative(random) THEN Thrown
  ELSE Returned(BitOr(ShiftLeft(timestamp, 20), BitAnd(random, RIGHT20)))

\* static #assemble(timestamp, random): [thrown, value]
assemble(timestamp, random) ==
  IF IsNegative(timestamp) \/ IsNegative(random) THEN Thrown
  ELSE LET time          == ShiftLeft(timestamp, 20)
           randBitLength == Len(ToString2(random))
           rnd == IF randBitLength > 20
                    THEN IF randBitLength > 64
                           THEN ShiftRight(BitAnd(random, MAX), 44)
                           ELSE ShiftRight(random, 44)
                    ELSE random
       IN  Returned(BitOr(time, rnd))

\* new SmallUid(input) for a bigint input
newFromBigint(input) == Returned(filterValue(input))

\* new SmallUid(input) for a number input: BigInt(input) throws a RangeError
\* unless the number is an integer
newFromNumber(integral, input) ==
  IF ~integral THEN Thrown ELSE Returned(filterValue(input))

\* new SmallUid(input) for a string input
newFromString(input) == stringToValue(input)

\* new SmallUid(): #value keeps its initialiser 0n
newEmpty == Returned(ZERO)

\* the factories: #assemble, then new SmallUid(value)
construct(a) == IF a.thrown THEN Thrown ELSE newFromBigint(a.value)

gen(clock, rng) == construct(assemble(clock, rng))

fromTimestamp(timestamp, rng) == construct(assemble(timestamp, rng))

fromRandom(clock, random) == construct(assemble(clock, random))

fromParts(timestamp, random) == construct(assemble(timestamp, random))

\* the getters of an instance whose #value is v
getTimestamp(v) == ShiftRight(v, 20)

getRandom(v) == BitAnd(v, RIGHT20)

getDisassembled(v) == <<ShiftRight(v, 20), BitAnd(v, RIGHT20)>>

getString(v) == genString(v)

\* ------------------------------------------------------------ the inputs

\* the longest bigint a caller passes, in bits
MaxBits == 84

\* the bit patterns tried at each length
MaxStride == 1

\* a length-n pattern with its top bit set: a power of two (f = 0), or a
\* bit set at every f-th position (f = 1: all ones)
Pattern(n, f) ==
  [i \in 1..n |-> IF i = 1 THEN 1
                  ELSE IF f = 0 THEN 0
                  ELSE IF (i - 1) % f = 0 THEN 1 ELSE 0]

\* the bit lengths tried up to max: each multiple of four (the hex digit and
\* the 20, 44 and 64 bit boundaries) and the length after it
Lens(max) == {n \in 0..max : n % 4 \in {0, 1}}

\* the non-negative bigints of the given bit lengths
Bigs(lens) == {Big(Pattern(n, f)) : n \in lens, f \in 0..MaxStride}

\* a few negative bigints
Negatives ==
  {BigNeg(Pattern(n, f)) : n \in {k \in 1..MaxBits : k % 32 = 1}, f \in 0..MaxStride}

\* what generate() can return: a BigUint64Array element
RngOutputs == Bigs(Lens(64))

\* what Date.now() can return: a non-negative integer number
ClockReadings == Bigs(Lens(53))

\* the timestamp and random arguments of the factories
Timestamps == Bigs(Lens(MaxBits)) \cup Negatives

Randoms == Bigs(Lens(MaxBits)) \cup Negatives

\* the bigint and (integer) number arguments of the constructor
BigintInputs == Bigs(0..MaxBits) \cup Negatives

\* the values given to encode
EncodeInputs == Bigs(0..64)

\* the longest text a caller passes, in characters
MaxTextLen == 12

\* 'A', 'z', '9', '-', '_', and '+', '/', '=', ' '
TextChars == {65, 122, 57, MINUS, UNDERSCORE, PLUS, SLASH, PAD, 32}

\* the string arguments of the constructor: one character repeated, then
\* at most one other character
Texts ==
  {[i \in 1..n |-> c] \o tail :
     n \in 0..MaxTextLen, c \in TextChars,
     tail \in {<<>>} \cup {<<d>> : d \in TextChars}}

\* the arguments of the two factory calls of a caller that sorts identifiers
\* (with two 44-bit timestamps whose top six bits are 51 and 52)
SortTimestamps ==
  Bigs({0, 1, 2, 21, 40, 43, 44})
    \cup {Big(IntToBits(k, 6) \o Zeros(38)) : k \in {51, 52}}

SortRandoms == Bigs({0, 20, 21, 45, 64, 65, MaxBits})

\* ------------------------------------------------------------- the state

\* cur:  the last call, its arguments, what the clock and the random source
\*       returned to it, and its outcome
\* prev: the call before it, when cur was given that call's result
VARIABLES cur, prev

vars == <<cur, prev>>

NoCall ==
  [op |-> "none", timestamp |-> ZERO, random |-> ZERO, clock |-> ZERO,
   rng |-> ZERO, input |-> ZERO, text |-> <<>>, thrown |-> FALSE,
   value |-> ZERO, out |-> <<>>]

\* the call made an instance of SmallUid
IsUid(c) ==
  /\ c.op \in {"new", "newBigint", "newNumber", "newString", "gen",
               "fromTimestamp", "fromRandom", "fromParts"}
  /\ ~c.thrown

\* the caller holds nothing
Idle == cur.op = "none"

Init == cur = NoCall /\ prev = NoCall

\* the outcome r of a first call
First(call, r) ==
  /\ cur' = [call EXCEPT !.thrown = r.thrown, !.value = r.value]
  /\ prev' = NoCall

\* new SmallUid()
New ==
  /\ Idle
  /\ First([NoCall EXCEPT !.op = "new"], newEmpty)

\* new SmallUid(input), input a bigint
NewBigint ==
  /\ Idle
  /\ \E input \in BigintInputs :
       First([NoCall EXCEPT !.op = "newBigint", !.input = input],
             newFromBigint(input))

\* new SmallUid(input), input a number
NewNumber ==
  /\ Idle
  /\ \E input \in BigintInputs, integral \in BOOLEAN :
       First([NoCall EXCEPT !.op = IF integral THEN "newNumber" ELSE "newFraction",
                            !.input = input],
             newFromNumber(integral, input))

\* SmallUid.gen()
Gen ==
  /\ Idle
  /\ \E clock \in ClockReadings, rng \in RngOutputs :
       First([NoCall EXCEPT !.op = "gen", !.clock = clock, !.rng = rng],
             gen(clock, rng))

\* SmallUid.fromTimestamp(timestamp)
FromTimestamp ==
  /\ Idle
  /\ \E timestamp \in Timestamps, rng \in RngOutputs :
       First([NoCall EXCEPT !.op = "fromTimestamp", !.timestamp = timestamp,
                            !.rng = rng],
             fromTimestamp(timestamp, rng))

\* SmallUid.fromRandom(random)
FromRandom ==
  /\ Idle
  /\ \E random \in Randoms, clock \in ClockReadings :
       First([NoCall EXCEPT !.op = "fromRandom", !.random = random,
                            !.clock = clock],
             fromRandom(clock, random))

\* SmallUid.fromParts(timestamp, random)
FromParts ==
  /\ Idle
  /\ \E timestamp \in Timestamps, random \in Randoms :
       First([NoCall EXCEPT !.op = "fromParts", !.timestamp = timestamp,
                            !.random = random],
             fromParts(timestamp, random))

\* new SmallUid(u.string) for the instance u the last call made
NewString ==
  /\ IsUid(cur)
  /\ prev.op = "none"
  /\ LET text == getString(cur.value)
         r    == newFromString(text)
     IN  cur' = [NoCall EXCEPT !.op = "newString", !.text = text,
                               !.thrown = r.thrown, !.value = r.value]
  /\ prev' = cur

\* new SmallUid(input), input any string
NewText ==
  /\ Idle
  /\ \E text \in Texts :
       First([NoCall EXCEPT !.op = "newString", !.text = text],
             newFromString(text))

\* encode(v)
Encode ==
  /\ Idle
  /\ \E v \in EncodeInputs :
       /\ cur' = [NoCall EXCEPT !.op = "encode", !.input = v, !.out = encode(v)]
       /\ prev' = NoCall

\* decode(s) of the text the last call encoded
Decode ==
  /\ cur.op = "encode"
  /\ LET r == decode(cur.out)
     IN  cur' = [NoCall EXCEPT !.op = "decode", !.text = cur.out,
                               !.thrown = r.thrown, !.value = r.value]
  /\ prev' = cur

\* the caller drops what it holds
Drop == ~Idle /\ cur' = NoCall /\ prev' = NoCall

Next ==
  \/ New \/ NewBigint \/ NewNumber \/ NewString \/ NewText
  \/ Gen \/ FromTimestamp \/ FromRandom \/ FromParts
  \/ Encode \/ Decode
  \/ Drop

Spec == Init /\ [][Next]_vars

\* A caller that sorts identifiers: SmallUid.fromParts twice, keeping both
FromPartsFirst ==
  /\ Idle
  /\ \E timestamp \in SortTimestamps, random \in SortRandoms :
       First([NoCall EXCEPT !.op = "fromParts", !.timestamp = timestamp,
                            !.random = random],
             fromParts(timestamp, random))

FromPartsSecond ==
  /\ cur.op = "fromParts"
  /\ prev.op = "none"
  /\ \E timestamp \in SortTimestamps, random \in SortRandoms :
       LET r == fromParts(timestamp, random)
       IN  cur' = [NoCall EXCEPT !.op = "fromParts", !.timestamp = timestamp,
                                 !.random = random, !.thrown = r.thrown,
                                 !.value = r.value]
  /\ prev' = cur

NextSort == FromPartsFirst \/ FromPartsSecond \/ Drop

SpecSort == Init /\ [][NextSort]_vars

\* --------------------------------------------------------------- claims

\* 0 <= x < 2^bits
Fits(x, bits) == ~x.neg /\ Len(x.mag) <= bits

\* a sorts strictly before b, compared by character code
StrLess(a, b) ==
  \/ Len(a) < Len(b) /\ \A i \in 1..Len(a) : a[i] = b[i]
  \/ \E i \in 1..(IF Len(a) < Len(b) THEN Len(a) ELSE Len(b)) :
       /\ a[i] < b[i]
       /\ \A j \in 1..(i - 1) : a[j] = b[j]

\* C1: decode(encode(v)) = v for every v in [0, 2^64).
C1_CodecRoundTrip ==
  cur.op = "decode" => ~cur.thrown /\ cur.value = prev.input

\* C2: for u made by gen(), or by fromParts with a timestamp below 2^44 and
\* a non-negative random, new SmallUid(u.string) has u's value and u's string.
C2_TextRoundTrip ==
  ( /\ cur.op = "newString"
    /\ IsUid(prev)
    /\ \/ prev.op = "gen"
       \/ prev.op = "fromParts" /\ Fits(prev.timestamp, 44) ) =>
  /\ ~cur.thrown
  /\ cur.value = prev.value
  /\ getString(cur.value) = getString(prev.value)

\* C3: fromParts(t, r) with t below 2^44 and r below 2^20 has timestamp t,
\* random r and disassembled [t, r]; fromRandom(r) has random r whatever the
\* clock reads.
C3_Disassembly ==
  /\ ( cur.op = "fromParts" /\ Fits(cur.timestamp, 44) /\ Fits(cur.random, 20) ) =>
       /\ ~cur.thrown
       /\ getTimestamp(cur.value) = cur.timestamp
       /\ getRandom(cur.value) = cur.random
       /\ getDisassembled(cur.value) = <<cur.timestamp, cur.random>>
  /\ ( cur.op = "fromRandom" /\ Fits(cur.random, 20) ) =>
       /\ ~cur.thrown
       /\ getRandom(cur.value) = cur.random

\* C3 happens: fromParts of a 44-bit timestamp and a 20-bit random returned.
C3_Witness ==
  /\ cur.op = "fromParts"
  /\ ~cur.thrown
  /\ Len(cur.timestamp.mag) = 44 /\ ~cur.timestamp.neg
  /\ Len(cur.random.mag) = 20 /\ ~cur.random.neg
  /\ getDisassembled(cur.value) = <<cur.timestamp, cur.random>>

\* C4: whatever 64-bit value the random source returns, fromTimestamp(t) with
\* t below 2^44 has timestamp t, and gen() at a clock reading t below 2^44
\* has timestamp t.
C4_TimestampKept ==
  /\ ( cur.op = "fromTimestamp" /\ Fits(cur.timestamp, 44) /\ Fits(cur.rng, 64) ) =>
       /\ ~cur.thrown
       /\ getTimestamp(cur.value) = cur.timestamp
  /\ ( cur.op = "gen" /\ Fits(cur.clock, 44) /\ Fits(cur.rng, 64) ) =>
       /\ ~cur.thrown
       /\ getTimestamp(cur.value) = cur.clock

\* C4 happens: fromTimestamp of a 44-bit timestamp drew a 64-bit random value.
C4_Witness ==
  /\ cur.op = "fromTimestamp"
  /\ ~cur.thrown
  /\ Len(cur.timestamp.mag) = 44 /\ ~cur.timestamp.neg
  /\ Len(cur.rng.mag) = 64
  /\ getTimestamp(cur.value) = cur.timestamp

\* C5: fromTimestamp, fromRandom and fromParts throw, and make no instance,
\* when the timestamp or the random argument is negative.
C5_NegativeRejected ==
  /\ ( cur.op \in {"fromTimestamp", "fromParts"} /\ cur.timestamp.neg ) =>
       cur.thrown /\ ~IsUid(cur)
  /\ ( cur.op \in {"fromRandom", "fromParts"} /\ cur.random.neg ) =>
       cur.thrown /\ ~IsUid(cur)

\* C5 happens: fromParts of a non-negative timestamp and a negative random
\* threw.
C5_Witness ==
  /\ cur.op = "fromParts"
  /\ ~cur.timestamp.neg
  /\ cur.random.neg
  /\ cur.thrown

\* C6: fromTimestamp(t) throws for every t of more than 44 bits.
C6_GiantTimestampRejected ==
  ( cur.op = "fromTimestamp" /\ ~cur.timestamp.neg /\ Len(cur.timestamp.mag) > 44 ) =>
  cur.thrown

\* C7: encode(v) has exactly 11 characters for every v in [0, 2^64).
C7_FixedLength ==
  cur.op = "encode" => Len(cur.out) = 11

\* C8: every instance of SmallUid has 0 <= value < 2^64.
C8_Value64 ==
  /\ IsUid(cur) => Fits(cur.value, 64)
  /\ IsUid(prev) => Fits(prev.value, 64)

\* C8 happens: the constructor was given a negative bigint of more than 64
\* bits and made an instance.
C8_Witness ==
  /\ cur.op = "newBigint"
  /\ IsUid(cur)
  /\ cur.input.neg
  /\ Len(cur.input.mag) > 64

\* the caller made two identifiers by fromParts, the second with the later
\* timestamp, both timestamps below 2^44 and both randoms non-negative
SortedPair ==
  /\ prev.op = "fromParts" /\ cur.op = "fromParts"
  /\ Fits(prev.timestamp, 44) /\ Fits(cur.timestamp, 44)
  /\ ~prev.random.neg /\ ~cur.random.neg
  /\ BigLess(prev.timestamp, cur.timestamp)

\* C9: fromParts(t1, r1).value < fromParts(t2, r2).value when t1 < t2 < 2^44,
\* for non-negative randoms of any width.
C9_ChronologicalValues ==
  SortedPair =>
    /\ ~prev.thrown /\ ~cur.thrown
    /\ BigLess(prev.value, cur.value)

\* C9 happens: the earlier identifier was given a random of more than 64
\* bits, the later one a random of 0.
C9_Witness ==
  /\ SortedPair
  /\ Len(prev.random.mag) > 64
  /\ cur.random = ZERO
  /\ BigLess(prev.value, cur.value)

\* C10: when ta < tb < 2^44, the string of fromParts(ta, ra) sorts strictly
\* before the string of fromParts(tb, rb), compared by character code.
C10_SortableText ==
  ( SortedPair /\ ~prev.thrown /\ ~cur.thrown ) =>
    StrLess(getString(prev.value), getString(cur.value))

\* the text holds a character outside A-Z a-z 0-9 - _ that is not part of
\* its trailing '=' padding
HasForeignChar(text) ==
  \E i \in 1..Len(text) :
    /\ ~base64urlRegex(<<text[i]>>)
    /\ \/ text[i] # PAD
       \/ \E j \in (i + 1)..Len(text) : text[j] # PAD

\* C11: new SmallUid(text) throws, and makes no instance, when the text holds
\* at any position a character outside the base64url alphabet (trailing '='
\* excepted).
C11_InvalidTextRejected ==
  ( cur.op = "newString" /\ prev.op = "none" /\ HasForeignChar(cur.text) ) =>
  cur.thrown /\ ~IsUid(cur)

\* A caller that cuts an identifier's text short: SmallUid.gen(), then
\* new SmallUid(u.string.slice(0, k)) for k in 1..9 (as the test "Create from
\* short string" does with k = 5)
NewSliced ==
  /\ cur.op = "gen"
  /\ IsUid(cur)
  /\ prev.op = "none"
  /\ \E k \in 1..9 :
       LET string == getString(cur.value)
           text   == SubSeq(string, 1, IF Len(string) < k THEN Len(string) ELSE k)
           r      == newFromString(text)
       IN  cur' = [NoCall EXCEPT !.op = "newSliced", !.text = text,
                                 !.thrown = r.thrown, !.value = r.value]
  /\ prev' = cur

NextShort == Gen \/ NewSliced \/ Drop

SpecShort == Init /\ [][NextShort]_vars

\* C12: for u made by gen() (its string the 11 characters of a full
\* identifier) and k in 1..9, new SmallUid(u.string.slice(0, k)) throws.
C12_ShortTextRejected ==
  ( cur.op = "newSliced" /\ Len(getString(prev.value)) = 11 ) => cur.thrown

\* ----------------------------------------- a caller that keeps an instance

\* the arguments, clock readings and random values of a caller that keeps
\* its first instance while it goes on calling
KeptTimestamps == Bigs({44, 45}) \cup {BigNeg(<<1>>)}

KeptRandoms == Bigs({64}) \cup {BigNeg(<<1>>)}

KeptClockReadings == Bigs({41})

KeptRngOutputs == Bigs({64})

\* the instance the caller keeps: its first one
Held == IF prev.op # "none" THEN prev ELSE cur

\* a call that writes its result into the instance the caller keeps, as the
\* methods of the earlier class did (this.#value = ...; return this)
afterCallInPlace(held, r) ==
  IF r.thrown THEN held ELSE [held EXCEPT !.value = r.value]

\* the kept instance after a call returned r: #value is readonly, and every
\* factory ends in new SmallUid(value)
afterCall(held, r) == held

CanCall == Idle \/ IsUid(Held)

\* the outcome r of a call made while an instance is kept
Then(call, r) ==
  /\ cur' = [call EXCEPT !.thrown = r.thrown, !.value = r.value]
  /\ prev' = IF Idle THEN NoCall ELSE afterCall(Held, r)

KeptGen ==
  /\ CanCall
  /\ \E clock \in KeptClockReadings, rng \in KeptRngOutputs :
       Then([NoCall EXCEPT !.op = "gen", !.clock = clock, !.rng = rng],
            gen(clock, rng))

KeptFromTimestamp ==
  /\ CanCall
  /\ \E timestamp \in KeptTimestamps, rng \in KeptRngOutputs :
       Then([NoCall EXCEPT !.op = "fromTimestamp", !.timestamp = timestamp,
                           !.rng = rng],
            fromTimestamp(timestamp, rng))

KeptFromRandom ==
  /\ CanCall
  /\ \E random \in KeptRandoms, clock \in KeptClockReadings :
       Then([NoCall EXCEPT !.op = "fromRandom", !.random = random,
                           !.clock = clock],
            fromRandom(clock, random))

KeptFromParts ==
  /\ CanCall
  /\ \E timestamp \in KeptTimestamps, random \in KeptRandoms :
       Then([NoCall EXCEPT !.op = "fromParts", !.timestamp = timestamp,
                           !.random = random],
            fromParts(timestamp, random))

\* new SmallUid(input), input a bigint
KeptNewBigint ==
  /\ CanCall
  /\ \E input \in KeptTimestamps :
       Then([NoCall EXCEPT !.op = "newBigint", !.input = input],
            newFromBigint(input))

\* new SmallUid(u.string) for the kept instance u
KeptNewString ==
  /\ ~Idle
  /\ IsUid(Held)
  /\ LET text == getString(Held.value)
     IN  Then([NoCall EXCEPT !.op = "newString", !.text = text],
              newFromString(text))

\* u.value, u.timestamp, u.random, u.string of the kept instance u
KeptRead ==
  /\ ~Idle
  /\ IsUid(Held)
  /\ Then([NoCall EXCEPT !.op = "read",
                         !.timestamp = getTimestamp(Held.value),
                         !.random = getRandom(Held.value),
                         !.out = getString(Held.value)],
          Returned(Held.value))

NextKept ==
  \/ KeptGen \/ KeptFromTimestamp \/ KeptFromRandom \/ KeptFromParts
  \/ KeptNewBigint \/ KeptNewString \/ KeptRead
  \/ Drop

SpecKept == Init /\ [][NextKept]_vars

\* C13: no public operation of the static-factory class changes the value of
\* an instance already constructed; every factory returns another instance.
C13_Immutable ==
  [][ ( ~Idle /\ IsUid(Held) /\ cur'.op # "none" ) =>
        /\ prev' = Held
        /\ prev'.value = Held.value ]_vars

\* C13 happens: an instance is kept and gen() has since returned an
\* instance of another value.
C13_Witness ==
  /\ IsUid(prev)
  /\ cur.op = "gen"
  /\ IsUid(cur)
  /\ cur.value # prev.value

\* bits 63..44 of r: the top 20 of its low 64 bits
Top20Of64(r) == Big(SubSeq(Low(r.mag, 64), 1, 20))

\* C15: for t below 2^44 and r >= 0, fromParts(t, r).random is r when r is
\* below 2^20, r >> 44 when r is below 2^64, (r mod 2^64) >> 44 otherwise, and
\* in every case below 2^20; with a timestamp of 41 to 44 bits (a clock of
\* this era) the identifier has an 11-character string.
C15_Truncation ==
  ( cur.op = "fromParts" /\ Fits(cur.timestamp, 44) /\ ~cur.random.neg ) =>
    /\ ~cur.thrown
    /\ getRandom(cur.value) =
         IF Len(cur.random.mag) <= 20 THEN cur.random ELSE Top20Of64(cur.random)
    /\ Fits(getRandom(cur.value), 20)
    /\ Fits(cur.value, 64)
    /\ Len(cur.timestamp.mag) >= 41 => Len(getString(cur.value)) = 11

\* C15 happens: fromParts was given a random of more than 64 bits and a
\* timestamp of this era, and kept bits 63..44 of the random, not all zero.
C15_Witness ==
  /\ cur.op = "fromParts"
  /\ ~cur.thrown
  /\ Len(cur.timestamp.mag) = 41 /\ ~cur.timestamp.neg
  /\ Len(cur.random.mag) > 64 /\ ~cur.random.neg
  /\ getRandom(cur.value) = Top20Of64(cur.random)
  /\ getRandom(cur.value) # ZERO

\* ---------------------------------- the earlier, mutable class SmallUid

\* SmallUid.MAX_U64
MAX_U64 == Big(Ones(64))

\* btoau(u): btoa, then '+' to '-' and '/' to '_' (the padding stays)
btoau(u) ==
  LET b == Btoa(u)
  IN  [i \in 1..Len(b) |->
         IF b[i] = PLUS THEN MINUS ELSE IF b[i] = SLASH THEN UNDERSCORE ELSE b[i]]

\* atobu(s): '-' to '+' and '_' to '/', then atob; [ok, bytes]
atobu(s) ==
  Atob([i \in 1..Len(s) |->
          IF s[i] = MINUS THEN PLUS ELSE IF s[i] = UNDERSCORE THEN SLASH ELSE s[i]])

\* value.toString(16).match(/.{1,2}/g)!.map((byte) => parseInt(byte, 16))
legacyBytes(value) ==
  LET hex == ToString16(value)
      n   == (Len(hex) + 1) \div 2
  IN  [k \in 1..n |->
         IF 2 * k <= Len(hex) THEN 16 * hex[2 * k - 1] + hex[2 * k]
         ELSE hex[2 * k - 1]]

\* #genString(value)
legacyGenString(value) == btoau(legacyBytes(value))

\* /^[A-Za-z0-9\-_]+=?=?$/.test(s)
legacyRegex(s) ==
  \E pads \in 0..2 :
    /\ Len(s) > pads
    /\ base64urlRegex(SubSeq(s, 1, Len(s) - pads))
    /\ \A i \in (Len(s) - pads + 1)..Len(s) : s[i] = PAD

\* #stringToValue(string): [thrown, value]
legacyStringToValue(string) ==
  IF Len(string) > 12 \/ ~legacyRegex(string) THEN Thrown
  ELSE LET paddedString == string \o [i \in 1..((4 - (Len(string) % 4)) % 4) |-> PAD]
           bin          == atobu(paddedString)
       IN  IF ~bin.ok \/ bin.bytes = <<>> THEN Thrown
           ELSE Returned(Big(BytesToBits(bin.bytes)))

\* #assemble(timestamp, random): [thrown, value]
legacyAssemble(timestamp, random) ==
  IF IsNegative(timestamp) \/ IsNegative(random) THEN Thrown
  ELSE Returned(BitAnd(BitOr(ShiftLeft(timestamp, 20), random), MAX_U64))

\* this.#value = this.#assemble(...); this.#string = this.#genString(this.#value):
\* the instance [value, string] after the two assignments, or as it was when
\* #assemble throws
legacyAssign(inst, a) ==
  IF a.thrown THEN [thrown |-> TRUE, value |-> inst.value, string |-> inst.string]
  ELSE [thrown |-> FALSE, value |-> a.value, string |-> legacyGenString(a.value)]

legacyGen(inst, clock, rng) == legacyAssign(inst, legacyAssemble(clock, rng))

legacyFromTimestamp(inst, timestamp, rng) ==
  legacyAssign(inst, legacyAssemble(timestamp, rng))

legacyFromRandom(inst, clock, random) ==
  legacyAssign(inst, legacyAssemble(clock, random))

\* a fromParts that clears the instance before it assembles
legacyFromPartsClears(inst, timestamp, random) ==
  legacyAssign([value |-> ZERO, string |-> <<>>], legacyAssemble(timestamp, random))

legacyFromParts(inst, timestamp, random) ==
  legacyAssign(inst, legacyAssemble(timestamp, random))

\* unPad(): this.#string.replace(/=/g, "")
legacyUnPad(inst) ==
  [thrown |-> FALSE, value |-> inst.value,
   string |-> SelectSeq(inst.string, LAMBDA c : c # PAD)]

\* the arguments, clock readings and random values of the calls on an instance
LegacyTimestamps == Bigs({0, 41}) \cup {BigNeg(<<1>>)}

LegacyRandoms == Bigs({9, 64}) \cup {BigNeg(<<1>>)}

LegacyClockReadings == {Big(Pattern(41, 0))}

LegacyRngOutputs == Bigs({64})

LegacyOps ==
  {"legacyNew", "legacyGen", "legacyFromTimestamp", "legacyFromRandom",
   "legacyFromParts", "legacyUnPad"}

\* cur holds an instance of the earlier class: value is its #value, out its
\* #string, after the last call on it
IsLegacy(c) == c.op \in LegacyOps

\* the fields [value, string] of the instance in cur
LegacyFields == [value |-> cur.value, string |-> cur.out]

\* the outcome r of a method called on the instance: prev keeps the fields
\* the instance had before the call
LegacyCall(call, r) ==
  /\ cur' = [call EXCEPT !.thrown = r.thrown, !.value = r.value, !.out = r.string]
  /\ prev' = [NoCall EXCEPT !.op = "legacy", !.value = cur.value, !.out = cur.out]

\* new SmallUid(): the constructor calls this.gen()
LegacyNew ==
  /\ Idle
  /\ \E clock \in LegacyClockReadings, rng \in LegacyRngOutputs :
       LET r == legacyGen([value |-> ZERO, string |-> <<>>], clock, rng)
       IN  /\ cur' = [NoCall EXCEPT !.op = "legacyNew", !.clock = clock,
                                    !.rng = rng, !.thrown = r.thrown,
                                    !.value = r.value, !.out = r.string]
           /\ prev' = NoCall

LegacyGen ==
  /\ IsLegacy(cur)
  /\ \E clock \in LegacyClockReadings, rng \in LegacyRngOutputs :
       LegacyCall([NoCall EXCEPT !.op = "legacyGen", !.clock = clock, !.rng = rng],
                  legacyGen(LegacyFields, clock, rng))

LegacyFromTimestamp ==
  /\ IsLegacy(cur)
  /\ \E timestamp \in LegacyTimestamps, rng \in LegacyRngOutputs :
       LegacyCall([NoCall EXCEPT !.op = "legacyFromTimestamp",
                                 !.timestamp = timestamp, !.rng = rng],
                  legacyFromTimestamp(LegacyFields, timestamp, rng))

LegacyFromRandom ==
  /\ IsLegacy(cur)
  /\ \E random \in LegacyRandoms, clock \in LegacyClockReadings :
       LegacyCall([NoCall EXCEPT !.op = "legacyFromRandom", !.random = random,
                                 !.clock = clock],
                  legacyFromRandom(LegacyFields, clock, random))

LegacyFromParts ==
  /\ IsLegacy(cur)
  /\ \E timestamp \in LegacyTimestamps, random \in LegacyRandoms :
       LegacyCall([NoCall EXCEPT !.op = "legacyFromParts",
                                 !.timestamp = timestamp, !.random = random],
                  legacyFromParts(LegacyFields, timestamp, random))

LegacyUnPad ==
  /\ IsLegacy(cur)
  /\ LegacyCall([NoCall EXCEPT !.op = "legacyUnPad"], legacyUnPad(LegacyFields))

NextLegacy ==
  \/ LegacyNew \/ LegacyGen \/ LegacyFromTimestamp \/ LegacyFromRandom
  \/ LegacyFromParts \/ LegacyUnPad
  \/ Drop

SpecLegacy == Init /\ [][NextLegacy]_vars

\* C14: after construction and after any calls of gen, fromTimestamp,
\* fromRandom, fromParts and unPad, the string of an instance of the earlier
\* class decodes (padding optional) to the instance's value.
C14_LegacyStringIsValue ==
  IsLegacy(cur) => legacyStringToValue(cur.out) = Returned(cur.value)

\* the last call on the instance was given a negative timestamp or random
LegacyNegativeCall ==
  \/ cur.op \in {"legacyFromTimestamp", "legacyFromParts"} /\ cur.timestamp.neg
  \/ cur.op \in {"legacyFromRandom", "legacyFromParts"} /\ cur.random.neg

\* C16: fromTimestamp, fromRandom or fromParts called on an instance of the
\* earlier class with a negative argument throws and leaves the instance's
\* value and string as they were.
C16_LegacyNoPartialState ==
  LegacyNegativeCall =>
    /\ cur.thrown
    /\ prev.op = "legacy"
    /\ cur.value = prev.value
    /\ cur.out = prev.out

\* C16 happens: fromParts with a negative random threw on an instance that
\* holds a value and a string.
C16_Witness ==
  /\ cur.op = "legacyFromParts"
  /\ cur.random.neg /\ ~cur.timestamp.neg
  /\ cur.thrown
  /\ prev.value # ZERO /\ prev.out # <<>>
  /\ cur.value = prev.value /\ cur.out = prev.out

====
